---------------------------- MODULE Spec2Model ----------------------------
(***************************************************************************)
(* Model of the QNX Remote Process Monitor's process control and           *)
(* introspection layer (ProcessControl) and of its login validation        *)
(* (Authenticator), as found in src/src/Authenticator.cpp.                 *)
(*                                                                         *)
(* Optional values are sequences: Nullopt is <<>>, a present value v is    *)
(* <<v>>.  File names and record contents are sequences of one-character   *)
(* strings.                                                                *)
(***************************************************************************)
EXTENDS Integers, Sequences, FiniteSets, TLC

VARIABLES
    qnx,        \* TRUE iff the build defines __QNXNTO__
    procs,      \* live processes: pid -> its procfs records
    others,     \* directory entries of /proc that are no live process
    op,         \* the operation that returned last ("none" after the table changed)
    arg,        \* its pid argument
    ret,        \* its return value
    log,        \* the probes and record reads it made, in order
    delivered,  \* the signals it made the kernel deliver: set of <<pid, signal>>
    pc,         \* position of the getChildProcesses scan: idle, scanning, done
    target,     \* the scan's pid argument
    remaining,  \* directory entries the iterator has yet to yield
    children,   \* the scan's result vector so far
    sources,    \* for each element of children, the entry name it came from
    changed,    \* TRUE iff the table changed since the scan began
    looked,     \* pids that getParentPid was called on during the scan
    goneEarly,  \* pids that exited during the scan before any lookup of them
    aborted,    \* TRUE iff the scan's outer catch block ended the iteration
    cmdArgs,    \* the arguments a process was started with
    cmdOpen,    \* TRUE iff its cmdline record can be opened
    cmdRet,     \* what getCommandLine returned (Nullopt before the call)
    loginFile,  \* the login file: Nullopt when missing, else <<lines>>
    loginOpen,  \* TRUE iff the login file can be opened
    loginUser,  \* ValidateLogin's username argument
    loginPass,  \* ValidateLogin's password argument
    loginRet,   \* what ValidateLogin returned, wrapped: <<>> before the call
    parseLine,  \* the line handed to UserEntry::FromString
    parseRet    \* what FromString returned, wrapped: <<>> before the call

vars == <<qnx, procs, others, op, arg, ret, log, delivered, pc, target,
          remaining, children, sources, changed, looked, goneEarly, aborted,
          cmdArgs, cmdOpen, cmdRet, loginFile, loginOpen, loginUser,
          loginPass, loginRet, parseLine, parseRet>>

ctlVars   == <<op, arg, ret, log, delivered>>
scanVars  == <<pc, target, remaining, children, sources, changed, looked,
               goneEarly, aborted>>
cmdVars   == <<cmdArgs, cmdOpen, cmdRet>>
loginVars == <<loginFile, loginOpen, loginUser, loginPass, loginRet,
               parseLine, parseRet>>

---------------------------------------------------------------------------
(* Bounds of the model.                                                    *)

\* Process identifiers of the control specification are 1..MaxPid.
MaxPid == 1
\* Process identifiers of the scan specification are 1..MaxScanPid.
MaxScanPid == 2
\* A command line holds at most MaxArgs arguments of at most MaxArgLen
\* characters each.
MaxArgs == 3
MaxArgLen == 2
\* The login file holds at most MaxLines lines.
MaxLines == 2
\* The type field of a parsed line holds at most MaxTypeLen characters.
MaxTypeLen == 2

---------------------------------------------------------------------------
(* Optional values and small helpers.                                      *)

Nullopt == <<>>
Some(v) == <<v>>
HasValue(o) == o # <<>>

Range(s) == {s[i] : i \in DOMAIN s}

\* INT_MAX of the 32-bit int that std::stoi returns.
IntMax == 2147483647

Digits == <<"0", "1", "2", "3", "4", "5", "6", "7", "8", "9">>
IsDigit(c) == \E i \in DOMAIN Digits : Digits[i] = c
DigitVal(c) == (CHOOSE i \in DOMAIN Digits : Digits[i] = c) - 1

\* operator<< of a non-negative integer: its decimal digits.
RECURSIVE NatText(_)
NatText(n) ==
    IF n < 10 THEN <<Digits[n + 1]>>
    ELSE Append(NatText(n \div 10), Digits[(n % 10) + 1])

\* path << pid: the decimal text of a pid_t, with a sign when negative.
PidText(pid) ==
    IF pid < 0 THEN <<"-">> \o NatText(-pid) ELSE NatText(pid)

\* The longest prefix of name made of digits.
RECURSIVE DigitPrefix(_)
DigitPrefix(name) ==
    IF name = <<>> \/ ~IsDigit(Head(name)) THEN <<>>
    ELSE <<Head(name)>> \o DigitPrefix(Tail(name))

\* The value of a digit sequence accumulated left to right as strtol does,
\* or -1 once it would exceed IntMax.
RECURSIVE DigitsValue(_, _)
DigitsValue(ds, acc) ==
    IF ds = <<>> THEN acc
    ELSE IF acc > (IntMax - DigitVal(Head(ds))) \div 10 THEN -1
    ELSE DigitsValue(Tail(ds), 10 * acc + DigitVal(Head(ds)))

\* std::stoi on a name that starts with a digit: the value of the digit
\* prefix (what follows is ignored), or out_of_range when it exceeds int.
Stoi(name) ==
    LET v == DigitsValue(DigitPrefix(name), 0)
    IN  IF v < 0 THEN [thrown |-> TRUE, val |-> 0]
        ELSE [thrown |-> FALSE, val |-> v]

IsNumeric(name) == name # <<>> /\ \A i \in DOMAIN name : IsDigit(name[i])

---------------------------------------------------------------------------
(* The process table.                                                      *)

\* The info record (debug_process_t): missing, short, or readable in full
\* with a parent field.
InfoRecords(pids) ==
    {[state |-> "missing", parent |-> 0], [state |-> "short", parent |-> 0]}
    \cup {[state |-> "full", parent |-> p] : p \in pids}

\* procfs_status.stksize of the one status record the model reads in full.
StkSize == 4096

\* The status record (procfs_status): missing, short, or readable in full.
StatusRecords ==
    {[state |-> "missing", stksize |-> 0], [state |-> "short", stksize |-> 0],
     [state |-> "full", stksize |-> StkSize]}

\* The stat text record: missing, empty (no line to read), or holding a line.
StatRecords == {"missing", "empty", "line"}

\* The directory of a live process is named by its pid.
ProcNames == {PidText(p) : p \in DOMAIN procs}

\* The process whose directory is /proc/<name>, if any.
ProcOfName(name) == {p \in DOMAIN procs : PidText(p) = name}

\* Every directory entry of /proc.
DirNames == ProcNames \cup {o.name : o \in others}

\* Names that /proc may hold besides the directories of live processes.
OtherNames ==
    { <<"1", "a">>,            \* starts with a digit, is no number
      <<"0", "2">>,            \* a number with a leading zero
      <<"a">>,                 \* starts with no digit
      <<"9", "9", "9", "9", "9", "9", "9", "9", "9", "9">> }  \* beyond int

\* Each may be a directory; one of them may also be a plain file.
OtherEntries ==
    {[name |-> n, dir |-> TRUE] : n \in OtherNames}
    \cup {[name |-> <<"1", "a">>, dir |-> FALSE]}

\* /proc holds at most one entry besides the processes' directories.
OtherSets == {{}} \cup {{e} : e \in OtherEntries}

---------------------------------------------------------------------------
(* The kernel's signal delivery.                                           *)

\* Signal names; SigNull is signal number zero, which delivers nothing.
SigNull == "0"
SigTerm == "SIGTERM"
SigStop == "SIGSTOP"
SigCont == "SIGCONT"

\* The processes kill(pid, sig) / SignalKill(0, pid, 0, sig, 0, 0) addresses:
\* a positive pid names one process, zero the caller's own process group
\* (written 0: the caller is always in it), a negative pid the process
\* group -pid (every process of the model leads its own group); POSIX kill
\* sends to every process the caller may signal when pid is -1.
Addressed(pid) ==
    IF pid > 0 THEN {pid} \cap DOMAIN procs
    ELSE IF pid = 0 THEN {0}
    ELSE IF pid = -1 /\ ~qnx THEN DOMAIN procs
    ELSE {-pid} \cap DOMAIN procs

\* kill / SignalKill: -1 (ESRCH) exactly when no process is addressed;
\* signal zero checks the address and delivers nothing.
Kill(pid, sig) ==
    [ok |-> Addressed(pid) # {},
     sent |-> IF sig = SigNull THEN {} ELSE {<<t, sig>> : t \in Addressed(pid)}]

---------------------------------------------------------------------------
(* Signal Dispatcher.  Each operator gives the call's return value, the    *)
(* signals it delivered and the diagnostic it wrote to std::cerr.          *)

sendSignal(pid, signal) ==
    LET k == Kill(pid, signal)
    IN  [ret |-> k.ok, sent |-> k.sent,
         cerr |-> IF k.ok THEN "" ELSE "Failed to send signal"]

suspend(pid) ==
    IF qnx THEN sendSignal(pid, SigStop)
    ELSE [ret |-> FALSE, sent |-> {},
          cerr |-> "Process suspension not supported on non-QNX systems"]

resume(pid) ==
    IF qnx THEN sendSignal(pid, SigCont)
    ELSE [ret |-> FALSE, sent |-> {},
          cerr |-> "Process resumption not supported on non-QNX systems"]

terminate(pid) == sendSignal(pid, SigTerm)

exists(pid) == Kill(pid, SigNull).ok

---------------------------------------------------------------------------
(* Process Introspector: record reads.                                     *)

MissingInfo == [state |-> "missing", parent |-> 0]
MissingStatus == [state |-> "missing", stksize |-> 0]

\* std::ifstream on /proc/<pid>/<record>: the record of the process whose
\* directory carries the decimal text of pid.
InfoFile(pid) ==
    LET ps == ProcOfName(PidText(pid))
    IN  IF ps = {} THEN MissingInfo ELSE procs[CHOOSE p \in ps : TRUE].info

StatusFile(pid) ==
    LET ps == ProcOfName(PidText(pid))
    IN  IF ps = {} THEN MissingStatus ELSE procs[CHOOSE p \in ps : TRUE].status

StatFile(pid) ==
    LET ps == ProcOfName(PidText(pid))
    IN  IF ps = {} THEN "missing" ELSE procs[CHOOSE p \in ps : TRUE].stat

\* The parent a status record yields: procfs_status holds no parent field,
\* so a status record read in full yields none either.
StatusParent(status) == Nullopt

\* getParentPid with the result of the info read ignored: a short read
\* still returns the parent field of the buffer.
getParentPid_UncheckedRead(pid) ==
    IF ~qnx THEN [ret |-> Nullopt, log |-> <<>>]
    ELSE IF InfoFile(pid).state # "missing"
    THEN [ret |-> Some(InfoFile(pid).parent), log |-> <<"info">>]
    ELSE [ret |-> Nullopt, log |-> <<"info", "status">>]

\* getParentPid: the return value and, in order, the records the call
\* opens.  Without __QNXNTO__ the body is compiled out.
getParentPid(pid) ==
    IF ~qnx THEN [ret |-> Nullopt, log |-> <<>>]
    ELSE IF InfoFile(pid).state = "full"
    THEN [ret |-> Some(InfoFile(pid).parent), log |-> <<"info">>]
    ELSE IF StatusFile(pid).state = "missing"
    THEN [ret |-> Nullopt, log |-> <<"info", "status">>]
    ELSE IF StatusFile(pid).state = "full"
    THEN [ret |-> StatusParent(StatusFile(pid)), log |-> <<"info", "status">>]
    ELSE [ret |-> Nullopt, log |-> <<"info", "status">>]

\* cpu_usage values, as fractions <<numerator, denominator>>.
CpuZero == <<0, 1>>
CpuPlaceholder == <<1, 2>>

\* getProcessInfo reading the records before it probes for the process.
getProcessInfo_ReadFirst(pid) ==
    IF ~qnx THEN [ret |-> Nullopt, log |-> <<"exists">>]
    ELSE [ret |-> IF exists(pid)
                  THEN Some([cpu_usage |-> IF StatFile(pid) = "line"
                                             THEN CpuPlaceholder ELSE CpuZero,
                             memory_usage |-> IF StatusFile(pid).state = "full"
                                                THEN StatusFile(pid).stksize ELSE 0])
                  ELSE Nullopt,
          log |-> <<"status", "stat", "exists">>]

\* getProcessInfo giving up when the status record cannot be read in full.
getProcessInfo_AbortOnStatus(pid) ==
    IF ~exists(pid) \/ ~qnx THEN [ret |-> Nullopt, log |-> <<"exists">>]
    ELSE IF StatusFile(pid).state # "full"
    THEN [ret |-> Nullopt, log |-> <<"exists", "status">>]
    ELSE [ret |-> Some([cpu_usage |-> IF StatFile(pid) = "line"
                                        THEN CpuPlaceholder ELSE CpuZero,
                        memory_usage |-> StatusFile(pid).stksize]),
          log |-> <<"exists", "status", "stat">>]

\* getProcessInfo: the return value and, in order, the probe and the
\* record opens the call makes.
getProcessInfo(pid) ==
    IF ~exists(pid) THEN [ret |-> Nullopt, log |-> <<"exists">>]
    ELSE IF ~qnx THEN [ret |-> Nullopt, log |-> <<"exists">>]
    ELSE [ret |-> Some([cpu_usage |-> IF StatFile(pid) = "line"
                                        THEN CpuPlaceholder ELSE CpuZero,
                        memory_usage |-> IF StatusFile(pid).state = "full"
                                           THEN StatusFile(pid).stksize ELSE 0]),
          log |-> <<"exists", "status", "stat">>]

---------------------------------------------------------------------------
(* Process Introspector: the table scan of getChildProcesses.              *)

\* entry.is_directory() for an entry the iterator yielded.  An entry whose
\* process has exited since the listing is no directory any more.
IsDirectory(name) ==
    \/ name \in ProcNames
    \/ \E o \in others : o.name = name /\ o.dir

\* scanEntry without the comparison of the parent with pid.
scanEntry_AnyParent(name, pid) ==
    IF ~IsDirectory(name) \/ name = <<>> \/ ~IsDigit(name[1]) \/ Stoi(name).thrown
    THEN [child |-> Nullopt, lookup |-> Nullopt, thrown |-> FALSE]
    ELSE [child |-> IF HasValue(getParentPid(Stoi(name).val).ret)
                    THEN Some(Stoi(name).val) ELSE Nullopt,
          lookup |-> Some(Stoi(name).val),
          thrown |-> FALSE]

\* scanEntry with a lookup that throws, out of the loop, on an entry whose
\* process is gone.
scanEntry_Propagate(name, pid) ==
    IF name \notin DirNames
    THEN [child |-> Nullopt, lookup |-> Nullopt, thrown |-> TRUE]
    ELSE IF ~IsDirectory(name) \/ name = <<>> \/ ~IsDigit(name[1]) \/ Stoi(name).thrown
    THEN [child |-> Nullopt, lookup |-> Nullopt, thrown |-> FALSE]
    ELSE [child |-> IF getParentPid(Stoi(name).val).ret = Some(pid)
                    THEN Some(Stoi(name).val) ELSE Nullopt,
          lookup |-> Some(Stoi(name).val),
          thrown |-> FALSE]

\* The loop body for one directory entry: the child it appends, if any,
\* the pid it looked up, if any, and whether an exception left the loop.
scanEntry(name, pid) ==
    IF ~IsDirectory(name)
    THEN [child |-> Nullopt, lookup |-> Nullopt, thrown |-> FALSE]
    ELSE IF name = <<>> \/ ~IsDigit(name[1])
    THEN [child |-> Nullopt, lookup |-> Nullopt, thrown |-> FALSE]
    ELSE IF Stoi(name).thrown
    THEN [child |-> Nullopt, lookup |-> Nullopt, thrown |-> FALSE]
    ELSE LET current_pid == Stoi(name).val
             parent_pid == getParentPid(current_pid).ret
         IN  [child |-> IF HasValue(parent_pid) /\ parent_pid[1] = pid
                        THEN Some(current_pid) ELSE Nullopt,
              lookup |-> Some(current_pid),
              thrown |-> FALSE]

---------------------------------------------------------------------------
(* Process Introspector: getCommandLine.                                   *)

NUL == "NUL"
LF == "LF"
SPACE == " "

\* The sequences in seqs, in order, with sep between neighbours.
RECURSIVE JoinWith(_, _)
JoinWith(seqs, sep) ==
    IF seqs = <<>> THEN <<>>
    ELSE IF Len(seqs) = 1 THEN seqs[1]
    ELSE seqs[1] \o <<sep>> \o JoinWith(Tail(seqs), sep)

\* The cmdline record of a process started with args: the arguments
\* separated by null bytes.
CmdlineRecord(args) == JoinWith(args, NUL)

\* std::getline(stream, result): the bytes before the first line feed.
RECURSIVE GetLine(_)
GetLine(bytes) ==
    IF bytes = <<>> \/ Head(bytes) = LF THEN <<>>
    ELSE <<Head(bytes)>> \o GetLine(Tail(bytes))

\* std::replace(first, last, from, to).
Replace(str, from, to) ==
    [i \in DOMAIN str |-> IF str[i] = from THEN to ELSE str[i]]

\* getCommandLine on a record that opens (file holds its bytes) or not.
getCommandLine(open, file) ==
    IF ~open THEN <<>>
    ELSE Replace(GetLine(file), NUL, SPACE)

---------------------------------------------------------------------------
(* Authenticator.                                                          *)

COLON == ":"

\* line.find(":", from), positions counted from 1; 0 stands for npos.
Find(line, from) ==
    LET hits == {i \in from .. Len(line) : line[i] = COLON}
    IN  IF hits = {} THEN 0 ELSE CHOOSE i \in hits : \A j \in hits : i <= j

\* std::from_chars into an int that holds 0: an optional minus sign and
\* the digits after it.  Without a digit, or out of the range of int, the
\* int is left as it was.
FromChars(str) ==
    LET neg == str # <<>> /\ Head(str) = "-"
        ds == DigitPrefix(IF neg THEN Tail(str) ELSE str)
        v == DigitsValue(ds, 0)
    IN  IF ds = <<>> \/ v < 0 THEN 0
        ELSE IF neg THEN -v ELSE v

\* UserEntry::FromString: Nullopt, or the entry the line parses to.
FromString(line) ==
    LET e1 == Find(line, 1)
        e2 == Find(line, e1 + 1)
        e3 == Find(line, e2 + 1)
    IN  IF e1 = 0 THEN Nullopt
        ELSE IF e2 = 0 THEN Nullopt
        ELSE IF e3 = 0 THEN Nullopt
        ELSE LET type_value == FromChars(SubSeq(line, e3 + 1, Len(line)))
             IN  IF 0 > type_value \/ type_value > 1 THEN Nullopt
                 ELSE Some([username |-> SubSeq(line, 1, e1 - 1),
                            hash |-> SubSeq(line, e1 + 1, e2 - 1),
                            salt |-> SubSeq(line, e2 + 1, e3 - 1),
                            type |-> type_value])

\* crypt(key, salt): a null pointer for a salt it does not accept (the
\* empty one), else a string that key and salt determine.
Crypt(key, salt) ==
    IF salt = <<>> THEN Nullopt ELSE Some(salt \o key)

generate_hash(password, salt) == Crypt(password, salt)

\* The loop of ValidateLogin over the lines not yet read.
RECURSIVE ValidateLines(_, _, _)
ValidateLines(lines, username, password) ==
    IF lines = <<>> THEN Nullopt
    ELSE LET line == Head(lines)
             user_entry == FromString(line)
         IN  IF line = <<>> \/ line[1] = "#"
             THEN ValidateLines(Tail(lines), username, password)
             ELSE IF ~HasValue(user_entry)
             THEN ValidateLines(Tail(lines), username, password)
             ELSE IF user_entry[1].username # username
             THEN ValidateLines(Tail(lines), username, password)
             ELSE IF generate_hash(password, user_entry[1].salt)
                        = Some(user_entry[1].hash)
             THEN Some(user_entry[1].type)
             ELSE Nullopt

\* The loop with a wrong password treated like a wrong username: it reads
\* on to the next line.
RECURSIVE ValidateLines_ReadOn(_, _, _)
ValidateLines_ReadOn(lines, username, password) ==
    IF lines = <<>> THEN Nullopt
    ELSE LET line == Head(lines)
             user_entry == FromString(line)
         IN  IF line = <<>> \/ line[1] = "#" \/ ~HasValue(user_entry)
             THEN ValidateLines_ReadOn(Tail(lines), username, password)
             ELSE IF /\ user_entry[1].username = username
                     /\ generate_hash(password, user_entry[1].salt)
                          = Some(user_entry[1].hash)
             THEN Some(user_entry[1].type)
             ELSE ValidateLines_ReadOn(Tail(lines), username, password)

ValidateLogin_ReadOn(file, open, username, password) ==
    IF ~HasValue(file) \/ ~open THEN Nullopt
    ELSE ValidateLines_ReadOn(file[1], username, password)

\* ValidateLogin on a login file that is missing (Nullopt) or holds
\* file[1], and that opens or not.
ValidateLogin(file, open, username, password) ==
    IF ~HasValue(file) THEN Nullopt
    ELSE IF ~open THEN Nullopt
    ELSE ValidateLines(file[1], username, password)

---------------------------------------------------------------------------
(* Actions of the process control specifications.                          *)

\* Pid arguments: live and never-issued positive pids, zero, and negative
\* values.
PidInputs(max) == (-max) .. (max + 1)

Returned(name, pid, r, l, d) ==
    /\ pc = "idle"
    /\ op' = name
    /\ arg' = pid
    /\ ret' = r
    /\ log' = l
    /\ delivered' = d
    /\ UNCHANGED <<qnx, procs, others, scanVars, cmdVars, loginVars>>

CallExists(pid) == Returned("exists", pid, exists(pid), <<"exists">>, {})

CallSuspend(pid) ==
    Returned("suspend", pid, suspend(pid).ret, <<>>, suspend(pid).sent)

CallResume(pid) ==
    Returned("resume", pid, resume(pid).ret, <<>>, resume(pid).sent)

CallTerminate(pid) ==
    Returned("terminate", pid, terminate(pid).ret, <<>>, terminate(pid).sent)

CallGetParentPid(pid) ==
    Returned("getParentPid", pid, getParentPid(pid).ret,
             getParentPid(pid).log, {})

CallGetProcessInfo(pid) ==
    Returned("getProcessInfo", pid, getProcessInfo(pid).ret,
             getProcessInfo(pid).log, {})

\* A process exits: the kernel removes it, its directory and its records.
ProcessExit(p) ==
    /\ pc # "done"
    /\ p \in DOMAIN procs
    /\ procs' = [q \in DOMAIN procs \ {p} |-> procs[q]]
    /\ op' = "none" /\ arg' = 0 /\ ret' = Nullopt /\ log' = <<>>
    /\ delivered' = {}
    /\ changed' = (changed \/ pc = "scanning")
    /\ goneEarly' = IF pc = "scanning" /\ p \notin looked
                     THEN goneEarly \cup {<<p, getParentPid(p).ret>>}
                     ELSE goneEarly
    /\ UNCHANGED <<qnx, others, pc, target, remaining, children, sources,
                   looked, aborted, cmdVars, loginVars>>

\* getChildProcesses(pid) is entered: the directory iterator is opened.
\* Without __QNXNTO__ the loop is compiled out and nothing is listed.
ScanBegin(pid) ==
    /\ pc = "idle"
    /\ pc' = "scanning"
    /\ target' = pid
    /\ remaining' = IF qnx THEN DirNames ELSE {}
    /\ children' = <<>>
    /\ sources' = <<>>
    /\ UNCHANGED <<qnx, procs, others, ctlVars, changed, looked, goneEarly,
                   aborted, cmdVars, loginVars>>

\* One iteration of the loop over /proc, on any entry not yet yielded.
ScanNext ==
    /\ pc = "scanning"
    /\ \E name \in remaining :
          LET e == scanEntry(name, target)
          IN  /\ remaining' = remaining \ {name}
              /\ children' = IF HasValue(e.child)
                              THEN Append(children, e.child[1]) ELSE children
              /\ sources' = IF HasValue(e.child)
                             THEN Append(sources, name) ELSE sources
              /\ looked' = looked \cup Range(e.lookup)
              /\ aborted' = e.thrown
              /\ pc' = IF e.thrown THEN "done" ELSE "scanning"
    /\ UNCHANGED <<qnx, procs, others, ctlVars, target, changed, goneEarly,
                   cmdVars, loginVars>>

\* The iterator is exhausted: getChildProcesses returns children.
ScanReturn ==
    /\ pc = "scanning"
    /\ remaining = {}
    /\ pc' = "done"
    /\ UNCHANGED <<qnx, procs, others, ctlVars, target, remaining, children,
                   sources, changed, looked, goneEarly, aborted, cmdVars,
                   loginVars>>

---------------------------------------------------------------------------
(* Initial states.                                                         *)

ProcRecords(infos, statuses, stats) ==
    [info : infos, status : statuses, stat : stats]

Tables(pids, records) == UNION {[S -> records] : S \in SUBSET pids}

IdleCtl ==
    /\ op = "none" /\ arg = 0 /\ ret = Nullopt /\ log = <<>> /\ delivered = {}

IdleScan ==
    /\ pc = "idle" /\ target = 0 /\ remaining = {} /\ children = <<>>
    /\ sources = <<>> /\ changed = FALSE /\ looked = {} /\ goneEarly = {}
    /\ aborted = FALSE

IdleCmd == cmdArgs = <<>> /\ cmdOpen = FALSE /\ cmdRet = Nullopt

IdleLogin ==
    /\ loginFile = Nullopt /\ loginOpen = FALSE /\ loginUser = <<>>
    /\ loginPass = <<>> /\ loginRet = <<>>
    /\ parseLine = <<>> /\ parseRet = <<>>

\* The info record is QNX's debug_process_t: a build without __QNXNTO__
\* runs on a platform whose process table holds no such record.
InfosOf(pids) == IF qnx THEN InfoRecords(pids) ELSE {MissingInfo}

Init ==
    /\ qnx \in BOOLEAN
    /\ procs \in Tables(1 .. MaxPid,
                         ProcRecords(InfosOf(0 .. MaxPid), StatusRecords,
                                     StatRecords))
    /\ others = {}
    /\ IdleCtl /\ IdleScan /\ IdleCmd /\ IdleLogin

Next ==
    \/ \E pid \in PidInputs(MaxPid) :
          \/ CallExists(pid)
          \/ CallSuspend(pid)
          \/ CallResume(pid)
          \/ CallTerminate(pid)
          \/ CallGetParentPid(pid)
          \/ CallGetProcessInfo(pid)
    \/ \E p \in 1 .. MaxPid : ProcessExit(p)

Spec == Init /\ [][Next]_vars

\* The records of a process in the scan specification.  The scan reads a
\* status record only through getParentPid, after an info record that is
\* not read in full: the status record is missing or full there, and full
\* beside a full info record.  No process has a stat record.
ScanRecords ==
    {r \in ProcRecords(InfosOf(1 .. MaxScanPid), StatusRecords, {"missing"}) :
        /\ r.status.state # "short"
        /\ r.info.state = "full" => r.status.state = "full"}

InitScan ==
    /\ qnx \in BOOLEAN
    /\ procs \in Tables(1 .. MaxScanPid, ScanRecords)
    /\ others \in OtherSets
    /\ IdleCtl /\ IdleScan /\ IdleCmd /\ IdleLogin

NextScan ==
    \/ \E pid \in 1 .. MaxScanPid : ScanBegin(pid)
    \/ ScanNext
    \/ ScanReturn
    \/ \E p \in 1 .. MaxScanPid : pc = "scanning" /\ ProcessExit(p)

SpecScan == InitScan /\ [][NextScan]_vars

---------------------------------------------------------------------------
(* The command line specification.                                         *)

\* Sequences over S of length at most n.
SeqsUpTo(S, n) == UNION {[1 .. k -> S] : k \in 0 .. n}

\* Characters of an argument: a letter and a line feed.
ArgChars == {"x", LF}

ArgLists ==
    {a \in SeqsUpTo(SeqsUpTo(ArgChars, MaxArgLen), MaxArgs) : a # <<>>}

CallGetCommandLine ==
    /\ cmdRet = Nullopt
    /\ cmdRet' = Some(getCommandLine(cmdOpen, CmdlineRecord(cmdArgs)))
    /\ UNCHANGED <<qnx, procs, others, ctlVars, scanVars, cmdArgs, cmdOpen,
                   loginVars>>

InitCmd ==
    /\ qnx \in BOOLEAN
    /\ procs = <<>> /\ others = {}
    /\ cmdArgs \in ArgLists
    /\ cmdOpen \in BOOLEAN
    /\ cmdRet = Nullopt
    /\ IdleCtl /\ IdleScan /\ IdleLogin

NextCmd == CallGetCommandLine

SpecCmd == InitCmd /\ [][NextCmd]_vars

---------------------------------------------------------------------------
(* The login specification.                                                *)

Line(username, hash, salt, type) ==
    username \o <<COLON>> \o hash \o <<COLON>> \o salt \o <<COLON>> \o type

Usernames == {<<"u">>, <<"v">>}
Passwords == {<<"p">>, <<"q">>}

\* Lines a login file is made of.
LoginLines ==
    { Line(<<"u">>, <<"s", "p">>, <<"s">>, <<"0">>),   \* u, password p, VIEWER
      Line(<<"u">>, <<"s", "q">>, <<"s">>, <<"1">>),   \* u, password q, ADMIN
      Line(<<"v">>, <<"s", "p">>, <<"s">>, <<"1">>),   \* v, password p, ADMIN
      <<"#">> \o Line(<<"u">>, <<"s", "p">>, <<"s">>, <<"1">>),  \* a comment
      <<>>,                                            \* an empty line
      <<"u", COLON, "s", "p", COLON, "s">>,            \* no type field
      Line(<<"u">>, <<"s", "p">>, <<"s">>, <<"2">>),   \* type out of range
      Line(<<"v">>, <<"s", "q">>, <<"s">>, <<"x">>),   \* type not a number
      Line(<<"v">>, <<"q">>, <<>>, <<"0">>) }          \* a salt crypt refuses

LoginFiles == {Nullopt} \cup {Some(f) : f \in SeqsUpTo(LoginLines, MaxLines)}

CallValidateLogin(username, password) ==
    /\ loginRet = <<>>
    /\ loginUser' = username
    /\ loginPass' = password
    /\ loginRet' = Some(ValidateLogin(loginFile, loginOpen, username, password))
    /\ UNCHANGED <<qnx, procs, others, ctlVars, scanVars, cmdVars, loginFile,
                   loginOpen, parseLine, parseRet>>

InitLogin ==
    /\ qnx \in BOOLEAN
    /\ procs = <<>> /\ others = {}
    /\ loginFile \in LoginFiles
    /\ loginOpen \in BOOLEAN
    /\ HasValue(loginFile) \/ ~loginOpen
    /\ loginUser = <<>> /\ loginPass = <<>> /\ loginRet = <<>>
    /\ parseLine = <<>> /\ parseRet = <<>>
    /\ IdleCtl /\ IdleScan /\ IdleCmd

NextLogin ==
    \E username \in Usernames, password \in Passwords :
        CallValidateLogin(username, password)

SpecLogin == InitLogin /\ [][NextLogin]_vars

---------------------------------------------------------------------------
(* The line parsing specification.                                         *)

\* Characters of a type field: digits in and out of range, a sign, a
\* letter and a colon.
TypeChars == {"0", "1", "2", "-", "x", COLON}

\* Type fields: short ones, and a number beyond the range of int.
TypeFields ==
    SeqsUpTo(TypeChars, MaxTypeLen)
    \cup {<<"9", "9", "9", "9", "9", "9", "9", "9", "9", "9">>}

\* The username, hash and salt fields of a parsed line; each may be empty.
NameFields == {<<>>, <<"u">>}
HashFields == {<<"s", "p">>}
SaltFields == {<<>>, <<"s">>}

\* Lines handed to FromString: lines with four fields or more, and lines
\* with fewer than three colons.
ParseLines ==
    {Line(u, h, s, t) : u \in NameFields, h \in HashFields, s \in SaltFields,
                        t \in TypeFields}
    \cup { <<>>, <<"u">>, <<"u", COLON, "s", "p">>,
           <<"u", COLON, "s", "p", COLON, "s">> }

CallFromString ==
    /\ parseRet = <<>>
    /\ parseRet' = Some(FromString(parseLine))
    /\ UNCHANGED <<qnx, procs, others, ctlVars, scanVars, cmdVars, loginFile,
                   loginOpen, loginUser, loginPass, loginRet, parseLine>>

InitParse ==
    /\ qnx \in BOOLEAN
    /\ procs = <<>> /\ others = {}
    /\ loginFile = Nullopt /\ loginOpen = FALSE /\ loginUser = <<>>
    /\ loginPass = <<>> /\ loginRet = <<>>
    /\ parseLine \in ParseLines
    /\ parseRet = <<>>
    /\ IdleCtl /\ IdleScan /\ IdleCmd

NextParse == CallFromString

SpecParse == InitParse /\ [][NextParse]_vars

---------------------------------------------------------------------------
(* Claims about the table scan, checked under SpecScan.                    *)

\* Every pid a directory of the model can carry.
ScanPids == (-MaxScanPid) .. (MaxScanPid + 1)

\* The processes of the table whose declared parent, as getParentPid
\* reports it, is pid.
ChildrenOf(pid) == {p \in ScanPids : getParentPid(p).ret = Some(pid)}

\* C1: when the table did not change during the call, getChildProcesses(pid)
\* returns exactly the identifiers of the table entries whose parent, as
\* reported by getParentPid, equals pid: no child is missing and no
\* non-child is included.
C1_ChildrenExact ==
    (pc = "done" /\ ~changed) => Range(children) = ChildrenOf(target)

\* A finished scan of an unchanged table that found two children and
\* passed over an entry that is no child.
C1_Witness ==
    /\ pc = "done" /\ ~changed /\ qnx
    /\ Cardinality(Range(children)) >= 2
    /\ DirNames \ Range(sources) # {}

\* C2: only entries whose name is purely numeric contribute an identifier,
\* and each child identifier appears at most once in the result.
C2_NumericNamesOnly ==
    pc = "done" =>
        /\ \A i \in DOMAIN sources : IsNumeric(sources[i])
        /\ \A i, j \in DOMAIN children : children[i] = children[j] => i = j

\* C3: when processes exit between the listing and the lookup of their
\* entry, the scan still visits every remaining entry and returns normally;
\* its result holds no process that exited before it was looked up, and it
\* holds every child that stayed in the table for the whole scan.
C3_ExitDuringScan ==
    pc = "done" =>
        /\ ~aborted
        /\ remaining = {}
        /\ \A g \in goneEarly : g[1] \notin Range(children)
        /\ ChildrenOf(target) \subseteq Range(children)

\* A finished scan during which a child of the target exited before its
\* lookup while another child stayed.
C3_Witness ==
    /\ pc = "done"
    /\ \E g \in goneEarly : g[2] = Some(target)
    /\ children # <<>>

---------------------------------------------------------------------------
(* Claims about single calls, checked under Spec.                          *)

\* C4: getProcessInfo probes for the process first; when the probe reports
\* that pid does not exist it returns absent and reads neither the status
\* nor the stat record.
C4_ProbeBeforeReads ==
    op = "getProcessInfo" =>
        /\ log # <<>> /\ log[1] = "exists"
        /\ ~exists(arg) => (ret = Nullopt /\ log = <<"exists">>)

\* getProcessInfo returned for a positive pid that is not live while the
\* table holds the records of another process.
C4_Witness ==
    /\ op = "getProcessInfo" /\ qnx /\ arg > 0 /\ ~exists(arg)
    /\ DOMAIN procs # {}

\* Identifiers that are invalid or that no process of the model ever had.
NeverIssued(p) == p <= 0 \/ p > MaxPid

\* C5: for every identifier that is invalid or was never issued, zero and
\* negative values included, exists returns false and getParentPid and
\* getProcessInfo return absent.
C5_InvalidPidAbsent ==
    NeverIssued(arg) =>
        /\ op = "exists" => ret = FALSE
        /\ op \in {"getParentPid", "getProcessInfo"} => ret = Nullopt

\* What sendSignal returns when the kernel refuses the signal because the
\* target does not exist or may not be signalled.
OrdinaryFailure == sendSignal(MaxPid + 1, SigTerm).ret

\* C6: without stop/continue support suspend and resume deliver no signal
\* and report a failure whose outcome differs from the ordinary failure of
\* a signal the kernel refuses.
C6_UnsupportedIsDistinct ==
    (~qnx /\ op \in {"suspend", "resume"}) =>
        /\ delivered = {}
        /\ ret # OrdinaryFailure

\* C8: getParentPid returns the parent declared in the info record whenever
\* that record is read in full; it opens the status record only when the
\* info record is missing or short, and then returns the parent the status
\* record yields; when neither record yields a parent it returns absent.
C8_ParentFromInfo ==
    op = "getParentPid" =>
        /\ InfoFile(arg).state = "full" => ret = Some(InfoFile(arg).parent)
        /\ InfoFile(arg).state # "full" =>
              ret = IF StatusFile(arg).state = "full"
                    THEN StatusParent(StatusFile(arg)) ELSE Nullopt
        /\ \A i \in DOMAIN log :
              log[i] = "status" => InfoFile(arg).state # "full"

\* getParentPid returned for a process whose info record is short and
\* whose status record is read in full.
C8_Witness ==
    /\ op = "getParentPid" /\ qnx
    /\ InfoFile(arg).state = "short" /\ StatusFile(arg).state = "full"
    /\ log = <<"info", "status">>

\* The ProcessInfo the records of pid give when every unusable record
\* degrades its own field alone.
DegradedInfo(pid) ==
    [cpu_usage |-> IF StatFile(pid) = "line" THEN CpuPlaceholder ELSE CpuZero,
     memory_usage |-> IF StatusFile(pid).state = "full"
                        THEN StatusFile(pid).stksize ELSE 0]

InUnitInterval(f) == 0 <= f[1] /\ f[1] <= f[2]

---------------------------------------------------------------------------
(* Claim about getCommandLine, checked under SpecCmd.                      *)

\* C7: for a cmdline record that opens, made of arguments separated by null
\* bytes, getCommandLine returns the arguments in order joined by single
\* spaces; when the record cannot be opened it returns the empty string.
C7_ArgsJoinedBySpaces ==
    HasValue(cmdRet) =>
        cmdRet[1] = IF cmdOpen THEN JoinWith(cmdArgs, SPACE) ELSE <<>>

---------------------------------------------------------------------------
(* Claims about ValidateLogin, checked under SpecLogin.                    *)

\* The lines of the login file that are no comment, parse, and carry the
\* username.
EntriesOf(username) ==
    IF ~HasValue(loginFile) \/ ~loginOpen THEN {}
    ELSE {i \in DOMAIN loginFile[1] :
            LET line == loginFile[1][i]
            IN  /\ line # <<>> /\ line[1] # "#"
                /\ HasValue(FromString(line))
                /\ FromString(line)[1].username = username}

\* Line i holds the hash of the password under that line's salt.
HashMatches(i, password) ==
    LET e == FromString(loginFile[1][i])[1]
    IN  generate_hash(password, e.salt) = Some(e.hash)

TypeOf(i) == FromString(loginFile[1][i])[1].type

---------------------------------------------------------------------------
(* Claim about UserEntry::FromString, checked under SpecParse.             *)

\* The fields of a line: the pieces between its colons, in order.
RECURSIVE SplitAtColons(_)
SplitAtColons(line) ==
    LET e == Find(line, 1)
    IN  IF e = 0 THEN <<line>>
        ELSE <<SubSeq(line, 1, e - 1)>>
             \o SplitAtColons(SubSeq(line, e + 1, Len(line)))

\* The type field of a line with three colons or more: all that follows
\* the third colon.
TypeFieldOf(line) ==
    LET f == SplitAtColons(line)
    IN  JoinWith(SubSeq(f, 4, Len(f)), COLON)

\* A type field that is the integer 0 or 1: digits only, leading zeros
\* allowed, of value 0 or 1.
IsUserType(field) ==
    /\ IsNumeric(field)
    /\ DigitsValue(field, 0) \in {0, 1}

\* C11: FromString returns a UserEntry only for a line of the form
\* username:hash:salt:type whose type field is the integer 0 or 1, with
\* username, hash and salt copied verbatim and the type taken from that
\* field; for every other line it returns absent.
C11_OnlyWellFormedLines ==
    HasValue(parseRet) =>
        LET f == SplitAtColons(parseLine)
            wellFormed == Len(f) >= 4 /\ IsUserType(TypeFieldOf(parseLine))
        IN  /\ HasValue(parseRet[1]) <=> wellFormed
            /\ HasValue(parseRet[1]) =>
                  parseRet[1][1] = [username |-> f[1], hash |-> f[2],
                                    salt |-> f[3],
                                    type |-> DigitsValue(TypeFieldOf(parseLine), 0)]

=============================================================================
